---- MODULE Spec2Model ----
(***************************************************************************)
(* Model of the Dynamics 365 MCP gateway: the credential cache             *)
(* (authManager.ts), the fuzzy entity resolver (dynamicsEntityManager.ts)  *)
(* and the session registry of the /mcp endpoint (index.ts).               *)
(*                                                                         *)
(* The runtime is a single-threaded event loop: the code between two       *)
(* awaits runs atomically, and each await is a point where other tasks     *)
(* interleave.  Every action below is one such synchronous segment.        *)
(***************************************************************************)
EXTENDS Integers, Sequences, FiniteSets, TLC

(* ---------------------------------------------------------------------- *)
(* Bounds                                                                  *)
(* ---------------------------------------------------------------------- *)
NumCallers == 2      \* tasks that call getToken concurrently
MaxExchanges == 3    \* token exchange requests issued in one behaviour
MaxSkew == 2         \* the clock is observed at 0..MaxSkew seconds ...
MaxLong == 1         \* ... after 0..MaxLong long waits
NumResolvers == 2    \* tasks that call findBestMatchEntity concurrently
MaxEnumerations == 2 \* catalog enumeration requests issued in one behaviour
NumReqs == 3         \* requests that arrive at the /mcp endpoint

(* ---------------------------------------------------------------------- *)
(* Credential cache: authManager.ts                                        *)
(* ---------------------------------------------------------------------- *)
TOKEN_EXPIRY_BUFFER == 60

\* the four environment variables fetchToken destructures from process.env
Params == {"TENANT_ID", "CLIENT_ID", "CLIENT_SECRET", "DYNAMICS_RESOURCE_URL"}

\* the AuthManager objects of the process: the module-level one of
\* dynamicsApiClient.ts and the field of DynamicsEntityManager
Instances == {"api", "resolver"}

\* lifetimes (expires_in, seconds) the identity provider may report
Lifetimes == {30, TOKEN_EXPIRY_BUFFER, 3600}

\* a wait that ends one second before a 3600 s token's buffered expiry (ms)
LongStep == (3600 - TOKEN_EXPIRY_BUFFER - 1) * 1000

\* the instants (ms) at which the clock is observed
Instants == {s * 1000 + k * LongStep : s \in 0..MaxSkew, k \in 0..MaxLong}

\* the tasks that call getToken through callDynamicsApi
Callers == 1..NumCallers

\* the tasks that call findBestMatchEntity (tool handlers)
Resolvers == (NumCallers + 1)..(NumCallers + NumResolvers)

Tasks == Callers \cup Resolvers

\* the task of a tool handler that resolves names, one call after the other
FirstResolver == NumCallers + 1

\* tokenCache = null
NullCache == [present |-> FALSE, accessToken |-> 0, expiresAt |-> 0, storedAt |-> 0, lifetime |-> 0]

\* the record of a task's current getToken call
IdleCall == [pc |-> "idle", inst |-> "api", path |-> "none", exch |-> 0,
             ret |-> 0, retExpiresAt |-> 0, err |-> "none",
             respStatus |-> 0, respBody |-> "", errStatus |-> 0, errBody |-> ""]

\* the non-2xx answers the identity provider may give
Rejections == {[status |-> 401, body |-> "invalid_client"],
               [status |-> 503, body |-> "unavailable"]}

VARIABLES
    now,         \* Date.now(), milliseconds
    env,         \* the names of Params that are set in process.env
    tokenCache,  \* tokenCache[i]: AuthManager.tokenCache of instance i
    tok,         \* tok[t]: the getToken call of task t
    exchanges,   \* number of token exchange requests issued so far
    lastHit,     \* history: the latest cache hit, its token and the token's age
    entityCache, \* DynamicsEntityManager.entityCache
    fuse,        \* DynamicsEntityManager.fuse
    res,         \* res[r]: the findBestMatchEntity call of task r
    enumerations,\* number of catalog enumeration requests issued so far
    transports,  \* the registry: generated session id -> transport
    req,         \* req[r]: the /mcp request r and its handling
    tr,          \* tr[k]: the k-th StreamableHTTPServerTransport constructed
    uuids,       \* number of identifiers randomUUID has generated
    insertions,  \* history: the registry writes, in order
    api          \* the tool call in progress and its callDynamicsApi

authVars == <<now, env, tokenCache, tok, exchanges, lastHit>>
resolverVars == <<entityCache, fuse, res, enumerations>>
sessionVars == <<transports, req, tr, uuids, insertions>>
toolVars == <<api>>

\* isTokenValid with the boundary instant counted as valid
isTokenValid_Inclusive(cache, t) == cache.present /\ cache.expiresAt >= t

\* authManager.ts:31-33
isTokenValid(cache, t) == cache.present /\ cache.expiresAt > t

\* authManager.ts:42
ConfigPresent(e) == Params \subseteq e

\* ExpiresAt without the buffer
ExpiresAt_NoBuffer(t, expiresIn) == t + expiresIn * 1000

\* authManager.ts:68-69
ExpiresAt(t, expiresIn) == t + (expiresIn - TOKEN_EXPIRY_BUFFER) * 1000

\* GetTokenCall with the exchange issued before the configuration is checked
GetTokenCall_NoConfigCheck(i, n) ==
    LET cache == tokenCache[i]
        base  == [IdleCall EXCEPT !.inst = i]
    IN  IF isTokenValid(cache, now) /\ cache.present
        THEN [base EXCEPT !.pc = "returned", !.path = "cached",
                          !.ret = cache.accessToken,
                          !.retExpiresAt = cache.expiresAt]
        ELSE [base EXCEPT !.pc = "fetching", !.path = "fetch", !.exch = n]

\* The synchronous part of getToken on instance i, as the next call record
\* of task t: the cache hit (lines 18-21), the configuration check of
\* fetchToken (lines 40-44), or the exchange request (line 56), numbered n.
GetTokenCall(i, n) ==
    LET cache == tokenCache[i]
        base  == [IdleCall EXCEPT !.inst = i]
    IN  IF isTokenValid(cache, now) /\ cache.present
        THEN [base EXCEPT !.pc = "returned", !.path = "cached",
                          !.ret = cache.accessToken,
                          !.retExpiresAt = cache.expiresAt]
        ELSE IF ~ConfigPresent(env)
        THEN [base EXCEPT !.pc = "threw", !.path = "fetch", !.err = "config"]
        ELSE [base EXCEPT !.pc = "fetching", !.path = "fetch", !.exch = n]

\* whether the call issues the exchange request (authManager.ts:56)
IssuesExchange(i) == GetTokenCall(i, 0).pc = "fetching"

\* the latest cache hit after a call on instance i (authManager.ts:18-21)
HitAfter(i) ==
    IF GetTokenCall(i, 0).path = "cached"
    THEN [token |-> tokenCache[i].accessToken, age |-> now - tokenCache[i].storedAt]
    ELSE lastHit

\* a task calls authManager.getToken() (authManager.ts:17-25, 39-60); the
\* tasks are interchangeable, and a new call is given the lowest idle one
GetToken(t, i) ==
    /\ tok[t].pc = "idle"
    /\ \A q \in Callers : q < t => tok[q].pc # "idle"
    /\ IssuesExchange(i) => exchanges < MaxExchanges
    /\ tok' = [tok EXCEPT ![t] = GetTokenCall(i, exchanges + 1)]
    /\ exchanges' = IF IssuesExchange(i) THEN exchanges + 1 ELSE exchanges
    /\ lastHit' = HitAfter(i)
    /\ UNCHANGED <<now, env, tokenCache>>

\* the cache entry fetchToken stores (authManager.ts:67-71)
NewCache(accessToken, expiresIn) ==
    [present |-> TRUE, accessToken |-> accessToken,
     expiresAt |-> ExpiresAt(now, expiresIn),
     storedAt |-> now, lifetime |-> expiresIn]

\* the exchange of task t answers 2xx with expires_in = expiresIn
\* (authManager.ts:67-74); the access token is named after the exchange
FetchTokenOk(t, expiresIn) ==
    /\ tok[t].pc = "fetching"
    /\ LET cache == NewCache(tok[t].exch, expiresIn)
       IN  /\ tokenCache' = [tokenCache EXCEPT ![tok[t].inst] = cache]
           /\ tok' = [tok EXCEPT ![t].pc = "returned",
                                 ![t].ret = cache.accessToken,
                                 ![t].retExpiresAt = cache.expiresAt]
    /\ UNCHANGED <<now, env, exchanges, lastHit>>

\* ExchangeError without the provider's answer
ExchangeError_Generic(status, body) == [kind |-> "upstream", status |-> 0, body |-> ""]

\* the error thrown for a non-2xx answer: its message is built from
\* response.status and the response text (authManager.ts:62-65)
ExchangeError(status, body) == [kind |-> "upstream", status |-> status, body |-> body]

\* the exchange of task t answers non-2xx: the error is thrown, caught,
\* logged and rethrown (authManager.ts:62-65, 75-78); nothing is retried
\* and the cache is not touched
FetchTokenNotOk(t, answer) ==
    /\ tok[t].pc = "fetching"
    /\ LET e == ExchangeError(answer.status, answer.body)
       IN  tok' = [tok EXCEPT ![t].pc = "threw", ![t].err = e.kind,
                              ![t].respStatus = answer.status,
                              ![t].respBody = answer.body,
                              ![t].errStatus = e.status, ![t].errBody = e.body]
    /\ UNCHANGED <<now, env, tokenCache, exchanges, lastHit>>

\* the exchange of task t fails otherwise: the fetch is rejected
\* (authManager.ts:56) or the body of a 2xx answer is not JSON (line 67);
\* the error is rethrown (lines 75-78)
FetchTokenFail(t, kind) ==
    /\ tok[t].pc = "fetching"
    /\ tok' = [tok EXCEPT ![t].pc = "threw", ![t].err = kind]
    /\ UNCHANGED <<now, env, tokenCache, exchanges, lastHit>>

\* the caller of getToken consumes the result and may call again
CallerDone(t) ==
    /\ tok[t].pc \in {"returned", "threw"}
    /\ tok' = [tok EXCEPT ![t] = IdleCall]
    /\ UNCHANGED <<now, env, tokenCache, exchanges, lastHit>>

\* Time passes.  A settled getToken promise is consumed by its awaiting
\* caller in the same turn of the event loop, so the clock (in seconds) does
\* not advance while a result is pending delivery.
Tick ==
    /\ \A t \in Tasks : tok[t].pc \notin {"returned", "threw"}
    /\ \E t \in Instants : t > now /\ now' = t
    /\ UNCHANGED <<env, tokenCache, tok, exchanges, lastHit>>

AuthInit ==
    /\ now = 0
    /\ env \in SUBSET Params
    /\ tokenCache = [i \in Instances |-> NullCache]
    /\ tok = [t \in Tasks |-> IdleCall]
    /\ exchanges = 0
    /\ lastHit = [token |-> 0, age |-> 0]

(* ---------------------------------------------------------------------- *)
(* Entity resolver: dynamicsEntityManager.ts                               *)
(* ---------------------------------------------------------------------- *)

\* FUZZY_THRESHOLD = 0.6, in thousandths
FUZZY_THRESHOLD == 600

Customers == [name |-> "CustomersV3", url |-> "/data/CustomersV3"]
Products == [name |-> "ReleasedProductsV2", url |-> "/data/ReleasedProductsV2"]

\* the bodies a successful enumeration may carry (data.value)
Catalogs == {<<Customers, Products>>, <<Products, Customers>>, <<Products>>, <<>>}

\* Queries, one for each way the matcher can answer: an exact name, a
\* misspelling, a query whose best hit scores exactly the threshold, a
\* query whose only hit scores above it, a query that hits both entries
\* with the same score, and a query that hits nothing.
Queries == {"CustomersV3", "custmers", "cust", "cstmr", "data",
            "xyz completely unrelated"}

\* The dissimilarity the matcher reports for an entry (result.score), in
\* thousandths: 0 is an exact match, 1000 no relation.  It combines the
\* scores of the two keys, so a hit may score above the threshold that
\* was applied to each key.
Score(q, e) ==
    IF q = e.name THEN 0
    ELSE IF q = "custmers" /\ e.name = "CustomersV3" THEN 300
    ELSE IF q = "cust" /\ e.name = "CustomersV3" THEN 600
    ELSE IF q = "cstmr" /\ e.name = "CustomersV3" THEN 775
    ELSE IF q = "data" THEN 400
    ELSE 1000

\* whether the matcher reports the entry as a hit for the query: the
\* pattern is within the threshold on one of the keys name and url
\* (dynamicsEntityManager.ts:18-22)
Matches(q, e) == Score(q, e) < 1000

\* fuse.search(query): the hits, best score first, hits of equal score in
\* index order
RECURSIVE Ranked(_, _, _)
Ranked(docs, q, upTo) ==
    IF upTo = 0 THEN <<>>
    ELSE LET prev == Ranked(docs, q, upTo - 1)
             hit  == [item |-> docs[upTo], score |-> Score(q, docs[upTo])]
             \* a hit goes after every earlier hit that scores no worse
             k    == Cardinality({j \in 1..Len(prev) : prev[j].score <= hit.score})
         IN  IF ~Matches(q, docs[upTo]) THEN prev
             ELSE SubSeq(prev, 1, k) \o <<hit>> \o SubSeq(prev, k + 1, Len(prev))

FuseSearch(docs, q) == Ranked(docs, q, Len(docs))

\* Lookup with the threshold excluded
Lookup_Strict(cache, f, q) ==
    IF ~f.built \/ Len(cache.entries) = 0 THEN "null"
    ELSE LET results == FuseSearch(f.docs, q)
         IN  IF Len(results) > 0 /\ results[1].score < FUZZY_THRESHOLD
             THEN results[1].item.url
             ELSE "null"

\* dynamicsEntityManager.ts:24-28, on a built index
Lookup(cache, f, q) ==
    IF ~f.built \/ Len(cache.entries) = 0 THEN "null"
    ELSE LET results == FuseSearch(f.docs, q)
         IN  IF Len(results) > 0 /\ results[1].score <= FUZZY_THRESHOLD
             THEN results[1].item.url
             ELSE "null"

\* entityCache = null, fuse = null
NullIndex == [built |-> FALSE, entries |-> <<>>]
NullFuse == [built |-> FALSE, docs |-> <<>>]

IdleFind == [pc |-> "idle", query |-> "none", result |-> "none",
             built |-> FALSE, failed |-> "none"]

\* findBestMatchEntity(q) up to its first await (lines 15-17, 32): with an
\* index it answers at once; without one it starts fetchAllEntities, whose
\* first step is the synchronous part of getToken
FindBestMatchEntity(r, q) ==
    /\ res[r].pc = "idle"
    /\ IF entityCache.built
       THEN /\ res' = [res EXCEPT ![r] = [IdleFind EXCEPT !.pc = "done", !.query = q,
                                       !.result = Lookup(entityCache, fuse, q)]]
            /\ UNCHANGED <<tok, exchanges, lastHit>>
       ELSE /\ IssuesExchange("resolver") => exchanges < MaxExchanges
            /\ res' = [res EXCEPT ![r] = [IdleFind EXCEPT !.pc = "awaitToken", !.query = q]]
            /\ tok' = [tok EXCEPT ![r] = GetTokenCall("resolver", exchanges + 1)]
            /\ exchanges' = IF IssuesExchange("resolver") THEN exchanges + 1 ELSE exchanges
            /\ lastHit' = HitAfter("resolver")
    /\ UNCHANGED <<now, env, tokenCache, entityCache, fuse, enumerations>>

\* getToken threw: the await of line 32 is outside the try, so
\* fetchAllEntities and findBestMatchEntity reject and nothing is cached
TokenRejected(r) ==
    /\ res[r].pc = "awaitToken"
    /\ tok[r].pc = "threw"
    /\ res' = [res EXCEPT ![r].pc = "threw", ![r].failed = tok[r].err]
    /\ tok' = [tok EXCEPT ![r] = IdleCall]
    /\ UNCHANGED <<now, env, tokenCache, exchanges, lastHit, entityCache, fuse, enumerations>>

\* getToken returned: the catalog GET is issued (lines 33-40)
RequestCatalog(r) ==
    /\ res[r].pc = "awaitToken"
    /\ tok[r].pc = "returned"
    /\ enumerations < MaxEnumerations
    /\ enumerations' = enumerations + 1
    /\ res' = [res EXCEPT ![r].pc = "awaitCatalog"]
    /\ tok' = [tok EXCEPT ![r] = IdleCall]
    /\ UNCHANGED <<now, env, tokenCache, exchanges, lastHit, entityCache, fuse>>

\* the rest of findBestMatchEntity once fetchAllEntities has returned
\* entries (lines 16-28): the index is stored, the matcher built, the
\* query answered
StoreIndex(r, entries, failure) ==
    LET cache == [built |-> TRUE, entries |-> entries]
        f     == [built |-> TRUE, docs |-> entries]
    IN  /\ entityCache' = cache
        /\ fuse' = f
        /\ res' = [res EXCEPT ![r].pc = "done", ![r].built = TRUE,
                              ![r].failed = failure,
                              ![r].result = Lookup(cache, f, res[r].query)]

\* the catalog answers 2xx with a well-formed body (lines 41-43)
CatalogOk(r, entries) ==
    /\ res[r].pc = "awaitCatalog"
    /\ StoreIndex(r, entries, "none")
    /\ UNCHANGED <<now, env, tokenCache, tok, exchanges, lastHit, enumerations>>

\* the catalog request fails: rejected fetch, non-2xx answer or malformed
\* body; the catch of lines 44-46 turns it into the empty list
CatalogFail(r, kind) ==
    /\ res[r].pc = "awaitCatalog"
    /\ StoreIndex(r, <<>>, kind)
    /\ UNCHANGED <<now, env, tokenCache, tok, exchanges, lastHit, enumerations>>

\* the tool handler consumes the result and the task may call again
FindDone(r) ==
    /\ res[r].pc \in {"done", "threw"}
    /\ res' = [res EXCEPT ![r] = IdleFind]
    /\ UNCHANGED <<now, env, tokenCache, tok, exchanges, lastHit, entityCache, fuse, enumerations>>

ResolverInit ==
    /\ entityCache = NullIndex
    /\ fuse = NullFuse
    /\ res = [r \in Resolvers |-> IdleFind]
    /\ enumerations = 0

(* ---------------------------------------------------------------------- *)
(* Session registry: the /mcp endpoint of index.ts                         *)
(* ---------------------------------------------------------------------- *)

Reqs == 1..NumReqs

\* The values of the mcp-session-id header: no header, the empty string, a
\* generated identifier (the n-th UUID), or a string that names a member
\* of Object.prototype, such as "constructor".
Headers ==
    {[kind |-> "absent", n |-> 0], [kind |-> "empty", n |-> 0],
     [kind |-> "proto", n |-> 0]}
    \cup {[kind |-> "uuid", n |-> n] : n \in 1..NumReqs}

\* !sessionId is false (index.ts:23, 27)
Truthy(h) == h.kind \in {"uuid", "proto"}

\* Registered answering with the transport constructed last
Registered_Latest(h) ==
    IF h.kind = "uuid" /\ h.n \in DOMAIN transports THEN Len(tr)
    ELSE IF h.kind = "proto" THEN -1
    ELSE 0

\* transports[sessionId] (index.ts:23-24): a registered transport k > 0;
\* for a member name of Object.prototype the inherited member, which is
\* truthy and no transport (-1); otherwise undefined (0).  transports is
\* the object literal {} of line 13.
Registered(h) ==
    IF h.kind = "uuid" /\ h.n \in DOMAIN transports THEN transports[h.n]
    ELSE IF h.kind = "proto" THEN -1
    ELSE 0

\* Route with the initialize branch taken whatever the header is
Route_InitIgnoresHeader(h, isInit) ==
    IF Truthy(h) /\ Registered(h) # 0 THEN "reuse"
    ELSE IF isInit THEN "init"
    ELSE "reject"

\* the branch the endpoint takes (index.ts:23-46)
Route(h, isInit) ==
    IF Truthy(h) /\ Registered(h) # 0 THEN "reuse"
    ELSE IF ~Truthy(h) /\ isInit THEN "init"
    ELSE "reject"

NewReq == [pc |-> "new", header |-> [kind |-> "absent", n |-> 0], isInit |-> FALSE,
           known |-> FALSE, transport |-> 0, handled |-> FALSE, status |-> 0,
           responses |-> 0, outcome |-> "none",
           threw |-> FALSE, sentBefore |-> FALSE, logged |-> FALSE]

\* CatchBlock answering 500 whether or not a response was started
CatchBlock_AlwaysResponds(rec, why) ==
    [rec EXCEPT !.pc = "done", !.outcome = why, !.threw = TRUE, !.logged = TRUE,
                !.sentBefore = (rec.responses > 0),
                !.status = 500, !.responses = rec.responses + 1]

\* The catch block of the endpoint (index.ts:50-60), entered with the
\* request as the exception left it: the error is logged, and the 500
\* answer is sent unless the response was started (res.headersSent).
CatchBlock(rec, why) ==
    [rec EXCEPT !.pc = "done", !.outcome = why, !.threw = TRUE, !.logged = TRUE,
                !.sentBefore = (rec.responses > 0),
                !.status = IF rec.responses > 0 THEN rec.status ELSE 500,
                !.responses = IF rec.responses > 0 THEN rec.responses ELSE 1]

\* the response handleRequest has started before it fails
Started(rec) == [rec EXCEPT !.status = 200, !.responses = 1]

\* the catch block for a request whose response has not been started
ServerError(rec, why) == CatchBlock(rec, why)

\* A request arrives (index.ts:16-49, up to the first await).  known
\* records whether its header is a key that was inserted in the registry.
Receive(r, h, isInit) ==
    /\ req[r].pc = "new"
    /\ \A q \in Reqs : q < r => req[q].pc # "new"
    /\ LET arrived == [NewReq EXCEPT !.header = h, !.isInit = isInit,
                                     !.known = (h.kind = "uuid" /\ h.n \in DOMAIN transports)]
           branch  == Route(h, isInit)
       IN  \/ /\ branch = "reuse"
              /\ Registered(h) > 0
              \* line 49: handleRequest of the registered transport starts
              /\ req' = [req EXCEPT ![r] = [arrived EXCEPT !.pc = "handling",
                                               !.transport = Registered(h),
                                               !.handled = TRUE]]
              /\ tr' = tr
           \/ /\ branch = "reuse"
              /\ Registered(h) < 0
              \* line 49: the inherited member has no handleRequest; the
              \* TypeError is caught at line 50
              /\ req' = [req EXCEPT ![r] = ServerError(arrived, "typeError")]
              /\ tr' = tr
           \/ /\ branch = "init"
              \* lines 28-37: a transport is constructed, server.connect awaited
              /\ tr' = Append(tr, [initialized |-> FALSE, sessionId |-> 0, owner |-> r])
              /\ req' = [req EXCEPT ![r] = [arrived EXCEPT !.pc = "connecting",
                                               !.transport = Len(tr) + 1]]
           \/ /\ branch = "reject"
              \* lines 41-45
              /\ req' = [req EXCEPT ![r] = [arrived EXCEPT !.pc = "done", !.status = 400,
                                               !.responses = 1, !.outcome = "rejected"]]
              /\ tr' = tr
    /\ UNCHANGED <<transports, uuids, insertions>>

\* server.connect(transport) resolves; handleRequest starts (lines 37, 49)
ConnectOk(r) ==
    /\ req[r].pc = "connecting"
    /\ req' = [req EXCEPT ![r].pc = "handling", ![r].handled = TRUE]
    /\ UNCHANGED <<transports, tr, uuids, insertions>>

\* server.connect(transport) rejects; caught at line 50
ConnectThrow(r) ==
    /\ req[r].pc = "connecting"
    /\ req' = [req EXCEPT ![r] = ServerError(req[r], "connectThrew")]
    /\ UNCHANGED <<transports, tr, uuids, insertions>>

\* the transport variable of the endpoint invocation that constructed
\* transport k, which the onsessioninitialized closure reads (lines 20, 32)
ClosureTransport_Shared(k) == Len(tr)

ClosureTransport(k) == req[tr[k].owner].transport

\* handleRequest accepts an initialize request on a transport that is not
\* initialized yet: the transport calls sessionIdGenerator (randomUUID,
\* a fresh identifier) and onsessioninitialized, which writes the registry
\* (lines 29-33).  After that the response is sent, or handleRequest
\* rejects before or after the response was started (lines 50-59).
SdkInitialize(r, ending) ==
    /\ req[r].pc = "handling"
    /\ req[r].isInit
    /\ LET k == req[r].transport
           id == uuids + 1
       IN  /\ ~tr[k].initialized
           /\ uuids' = id
           /\ tr' = [tr EXCEPT ![k].initialized = TRUE, ![k].sessionId = id]
           /\ transports' = [n \in DOMAIN transports \cup {id} |->
                                IF n = id THEN ClosureTransport(k) ELSE transports[n]]
           /\ insertions' = Append(insertions,
                                   [key |-> id, transport |-> ClosureTransport(k), by |-> r])
    /\ req' = [req EXCEPT ![r] =
                 IF ending = "throwBefore" THEN ServerError(req[r], "sdkThrew")
                 ELSE IF ending = "throwAfter"
                 THEN CatchBlock(Started(req[r]), "sdkThrew")
                 ELSE [req[r] EXCEPT !.pc = "done", !.status = 200, !.responses = 1,
                                     !.outcome = "sdkOk"]]

\* handleRequest serves a request of an established session
SdkServe(r) ==
    /\ req[r].pc = "handling"
    /\ ~req[r].isInit
    /\ tr[req[r].transport].initialized
    /\ req' = [req EXCEPT ![r].pc = "done", ![r].status = 200, ![r].responses = 1,
                          ![r].outcome = "sdkOk"]
    /\ UNCHANGED <<transports, tr, uuids, insertions>>

\* handleRequest answers with an error of its own (unsupported method or
\* headers, a second initialize, a message before initialization)
SdkReject(r) ==
    /\ req[r].pc = "handling"
    /\ req' = [req EXCEPT ![r].pc = "done", ![r].status = 406, ![r].responses = 1,
                          ![r].outcome = "sdkRejected"]
    /\ UNCHANGED <<transports, tr, uuids, insertions>>

\* handleRequest rejects, before (sent = FALSE) or after (sent = TRUE) the
\* response was started; the catch of lines 50-59 answers 500 only in the
\* first case
SdkThrow(r, sent) ==
    /\ req[r].pc = "handling"
    /\ req' = [req EXCEPT ![r] =
                 IF sent THEN CatchBlock(Started(req[r]), "sdkThrew")
                 ELSE ServerError(req[r], "sdkThrew")]
    /\ UNCHANGED <<transports, tr, uuids, insertions>>

SessionInit ==
    /\ transports = [n \in {} |-> 0]
    /\ req = [r \in Reqs |-> NewReq]
    /\ tr = <<>>
    /\ uuids = 0
    /\ insertions = <<>>

(* ---------------------------------------------------------------------- *)
(* Tool calls: the handlers of the MCP server and dynamicsApiClient.ts     *)
(* ---------------------------------------------------------------------- *)

\* a tool that resolves an entity name first, and one that does not
Tools == {"odata-Query", "create-Customer"}

\* what context.sendNotification does with a notification
Channel == {"ok", "throws", "rejects"}

\* what the business API does with a request: 204, 200 with a body, a
\* non-2xx answer, or a rejected fetch
Answers == {"204", "200", "404", "network"}

IdleTool == [pc |-> "idle", tool |-> "none", stage |-> "none", failures |-> 0,
             logged |-> 0, bearer |-> 0, answer |-> "none", result |-> "none",
             err |-> "none"]

\* the task whose getToken calls are those of callDynamicsApi
ApiCaller == 1

\* safeNotification without its try/catch
safeNotification_NoCatch(ch) ==
    [settled |-> IF ch = "ok" THEN "resolved" ELSE "rejected", logged |-> 0]

\* safeNotification (mcpserver lines 14-23): a throw or rejection of
\* context.sendNotification is caught and logged
safeNotification(ch) ==
    [settled |-> "resolved", logged |-> IF ch = "ok" THEN 0 ELSE 1]

\* notifySafely (dynamicsApiClient.ts:7-16): whatever notify did, resolved
notifySafely(n) == "resolved"

\* the end of callDynamicsApi for an answer of the business API
\* (dynamicsApiClient.ts:35-58)
ApiResult(rec, a) ==
    IF a = "204" THEN [rec EXCEPT !.pc = "returned", !.answer = a, !.result = "noContent"]
    ELSE IF a = "200" THEN [rec EXCEPT !.pc = "returned", !.answer = a, !.result = "text"]
    ELSE IF a = "404" THEN [rec EXCEPT !.pc = "threw", !.answer = a, !.err = "apiFailed"]
    ELSE [rec EXCEPT !.pc = "threw", !.answer = a, !.err = "network"]

\* A tool is called.  odata-Query awaits findBestMatchEntity (line 120);
\* the other tools call callDynamicsApi at once, whose first step is the
\* notification of dynamicsApiClient.ts:28.
CallTool(tool, q) ==
    /\ api.pc = "idle"
    /\ IF tool = "odata-Query"
       THEN /\ FindBestMatchEntity(FirstResolver, q)
            /\ api' = [IdleTool EXCEPT !.pc = "resolving", !.tool = tool]
       ELSE /\ api' = [IdleTool EXCEPT !.pc = "notifying", !.tool = tool, !.stage = "api"]
            /\ UNCHANGED <<authVars, resolverVars>>
    /\ UNCHANGED sessionVars

\* findBestMatchEntity settled (lines 120-141): a rejection rejects the
\* handler, null returns the error result, a name is notified
ToolResolved ==
    /\ api.pc = "resolving"
    /\ FindDone(FirstResolver)
    /\ api' = IF res[FirstResolver].pc = "threw"
                THEN [api EXCEPT !.pc = "threw", !.err = "resolver"]
              ELSE IF res[FirstResolver].result = "null"
                THEN [api EXCEPT !.pc = "returned", !.result = "noEntity"]
              ELSE [api EXCEPT !.pc = "notifying", !.stage = "tool"]
    /\ UNCHANGED sessionVars

\* The notification in flight settles, the channel having done ch.  The
\* handler's own notification (line 141) is awaited through
\* safeNotification, and the handler goes on to callDynamicsApi and its
\* notification; that one (dynamicsApiClient.ts:28) is awaited through
\* notifySafely around safeNotification, and callDynamicsApi goes on to
\* getToken (line 33).  A rejection would reject the handler, through the
\* catch of lines 56-58 in callDynamicsApi.
Notified(ch) ==
    /\ api.pc = "notifying"
    /\ LET s       == safeNotification(ch)
           settled == IF api.stage = "tool" THEN s.settled ELSE notifySafely(s.settled)
           seen    == [api EXCEPT !.failures = @ + (IF ch = "ok" THEN 0 ELSE 1),
                                  !.logged = @ + s.logged]
       IN  /\ api' = IF settled = "rejected"
                       THEN [seen EXCEPT !.pc = "threw", !.err = "notification"]
                     ELSE IF api.stage = "tool"
                       THEN [seen EXCEPT !.stage = "api"]
                     ELSE [seen EXCEPT !.pc = "awaitToken"]
           /\ IF settled = "resolved" /\ api.stage = "api"
              THEN GetToken(ApiCaller, "api")
              ELSE UNCHANGED authVars
    /\ UNCHANGED <<resolverVars, sessionVars>>

\* getToken returned: the request to the business API is issued
\* (dynamicsApiClient.ts:33-44)
ApiTokenReturned ==
    /\ api.pc = "awaitToken"
    /\ tok[ApiCaller].pc = "returned"
    /\ CallerDone(ApiCaller)
    /\ api' = [api EXCEPT !.pc = "awaitApi", !.bearer = tok[ApiCaller].ret]
    /\ UNCHANGED <<resolverVars, sessionVars>>

\* getToken threw: logged and rethrown (dynamicsApiClient.ts:33, 56-58)
ApiTokenThrew ==
    /\ api.pc = "awaitToken"
    /\ tok[ApiCaller].pc = "threw"
    /\ CallerDone(ApiCaller)
    /\ api' = [api EXCEPT !.pc = "threw", !.err = "token"]
    /\ UNCHANGED <<resolverVars, sessionVars>>

\* the business API answers (dynamicsApiClient.ts:35-58)
ApiAnswer(a) ==
    /\ api.pc = "awaitApi"
    /\ api' = ApiResult(api, a)
    /\ UNCHANGED <<authVars, resolverVars, sessionVars>>

\* the result went back to the client; the next tool call may start
ToolDone ==
    /\ api.pc \in {"returned", "threw"}
    /\ api' = IdleTool
    /\ UNCHANGED <<authVars, resolverVars, sessionVars>>

ToolInit == api = IdleTool

vars == <<now, env, tokenCache, tok, exchanges, lastHit, entityCache, fuse, res, enumerations,
          transports, req, tr, uuids, insertions, api>>

Init == AuthInit /\ ResolverInit /\ SessionInit /\ ToolInit

AuthNext ==
    \/ \E t \in Callers : GetToken(t, "api") /\ UNCHANGED <<resolverVars, sessionVars, toolVars>>
    \/ \E t \in Callers, l \in Lifetimes :
          FetchTokenOk(t, l) /\ UNCHANGED <<resolverVars, sessionVars, toolVars>>
    \/ \E t \in Callers, k \in {"network", "body"} :
          FetchTokenFail(t, k) /\ UNCHANGED <<resolverVars, sessionVars, toolVars>>
    \/ \E t \in Callers, a \in Rejections :
          FetchTokenNotOk(t, a) /\ UNCHANGED <<resolverVars, sessionVars, toolVars>>
    \/ \E t \in Callers : CallerDone(t) /\ UNCHANGED <<resolverVars, sessionVars, toolVars>>
    \/ Tick /\ UNCHANGED <<resolverVars, sessionVars, toolVars>>

AuthSpec == Init /\ [][AuthNext]_vars

ResolverNext ==
    \/ \E r \in Resolvers, q \in Queries : FindBestMatchEntity(r, q) /\ UNCHANGED <<sessionVars, toolVars>>
    \/ \E r \in Resolvers, l \in Lifetimes :
          FetchTokenOk(r, l) /\ UNCHANGED <<resolverVars, sessionVars, toolVars>>
    \/ \E r \in Resolvers, k \in {"network", "body"} :
          FetchTokenFail(r, k) /\ UNCHANGED <<resolverVars, sessionVars, toolVars>>
    \/ \E r \in Resolvers, a \in Rejections :
          FetchTokenNotOk(r, a) /\ UNCHANGED <<resolverVars, sessionVars, toolVars>>
    \/ \E r \in Resolvers : TokenRejected(r) /\ UNCHANGED <<sessionVars, toolVars>>
    \/ \E r \in Resolvers : RequestCatalog(r) /\ UNCHANGED <<sessionVars, toolVars>>
    \/ \E r \in Resolvers, c \in Catalogs : CatalogOk(r, c) /\ UNCHANGED <<sessionVars, toolVars>>
    \/ \E r \in Resolvers, k \in {"network", "status", "body"} :
          CatalogFail(r, k) /\ UNCHANGED <<sessionVars, toolVars>>
    \/ \E r \in Resolvers : FindDone(r) /\ UNCHANGED <<sessionVars, toolVars>>

ResolverSpec == Init /\ [][ResolverNext]_vars

\* the process started with its four identity variables set
ConfiguredInit == Init /\ env = Params

LookupNext ==
    \/ \E q \in Queries : FindBestMatchEntity(FirstResolver, q) /\ UNCHANGED <<sessionVars, toolVars>>
    \/ \E l \in Lifetimes :
          FetchTokenOk(FirstResolver, l) /\ UNCHANGED <<resolverVars, sessionVars, toolVars>>
    \/ \E k \in {"network", "body"} :
          FetchTokenFail(FirstResolver, k) /\ UNCHANGED <<resolverVars, sessionVars, toolVars>>
    \/ \E a \in Rejections :
          FetchTokenNotOk(FirstResolver, a) /\ UNCHANGED <<resolverVars, sessionVars, toolVars>>
    \/ TokenRejected(FirstResolver) /\ UNCHANGED <<sessionVars, toolVars>>
    \/ RequestCatalog(FirstResolver) /\ UNCHANGED <<sessionVars, toolVars>>
    \/ \E c \in Catalogs : CatalogOk(FirstResolver, c) /\ UNCHANGED <<sessionVars, toolVars>>
    \/ \E k \in {"network", "status", "body"} :
          CatalogFail(FirstResolver, k) /\ UNCHANGED <<sessionVars, toolVars>>
    \/ FindDone(FirstResolver) /\ UNCHANGED <<sessionVars, toolVars>>

LookupSpec == ConfiguredInit /\ [][LookupNext]_vars

SessionNext ==
    \/ \E r \in Reqs, h \in Headers, isInit \in BOOLEAN :
          Receive(r, h, isInit) /\ UNCHANGED <<authVars, resolverVars, toolVars>>
    \/ \E r \in Reqs : ConnectOk(r) /\ UNCHANGED <<authVars, resolverVars, toolVars>>
    \/ \E r \in Reqs : ConnectThrow(r) /\ UNCHANGED <<authVars, resolverVars, toolVars>>
    \/ \E r \in Reqs, e \in {"ok", "throwBefore", "throwAfter"} :
          SdkInitialize(r, e) /\ UNCHANGED <<authVars, resolverVars, toolVars>>
    \/ \E r \in Reqs : SdkServe(r) /\ UNCHANGED <<authVars, resolverVars, toolVars>>
    \/ \E r \in Reqs : SdkReject(r) /\ UNCHANGED <<authVars, resolverVars, toolVars>>
    \/ \E r \in Reqs, sent \in BOOLEAN :
          SdkThrow(r, sent) /\ UNCHANGED <<authVars, resolverVars, toolVars>>

SessionSpec == ConfiguredInit /\ [][SessionNext]_vars

\* tool calls, one after the other, with the token exchanges and the
\* catalog enumeration they cause
ToolNext ==
    \/ \E tool \in Tools, q \in Queries : CallTool(tool, q)
    \/ ToolResolved
    \/ \E ch \in Channel : Notified(ch)
    \/ ApiTokenReturned
    \/ ApiTokenThrew
    \/ \E a \in Answers : ApiAnswer(a)
    \/ ToolDone
    \/ \E t \in {ApiCaller, FirstResolver}, l \in Lifetimes :
          FetchTokenOk(t, l) /\ UNCHANGED <<resolverVars, sessionVars, toolVars>>
    \/ \E t \in {ApiCaller, FirstResolver}, k \in {"network", "body"} :
          FetchTokenFail(t, k) /\ UNCHANGED <<resolverVars, sessionVars, toolVars>>
    \/ \E t \in {ApiCaller, FirstResolver}, a \in Rejections :
          FetchTokenNotOk(t, a) /\ UNCHANGED <<resolverVars, sessionVars, toolVars>>
    \/ TokenRejected(FirstResolver) /\ UNCHANGED <<sessionVars, toolVars>>
    \/ RequestCatalog(FirstResolver) /\ UNCHANGED <<sessionVars, toolVars>>
    \/ \E c \in Catalogs : CatalogOk(FirstResolver, c) /\ UNCHANGED <<sessionVars, toolVars>>
    \/ \E k \in {"network", "status", "body"} :
          CatalogFail(FirstResolver, k) /\ UNCHANGED <<sessionVars, toolVars>>

ToolSpec == ConfiguredInit /\ [][ToolNext]_vars

(* ---------------------------------------------------------------------- *)
(* Claims about the credential cache                                       *)
(* ---------------------------------------------------------------------- *)

\* task t starts a getToken call in this step
Starts(t) == tok[t].pc = "idle" /\ tok'[t].pc # "idle"

\* the credential cached on the instance task t calls in this step, and
\* whether it is valid in the sense of the data model: now < expiresAt
StartCache(t) == tokenCache[tok'[t].inst]
StartValid(t) == StartCache(t).present /\ now < StartCache(t).expiresAt

\* C1: getToken calls in flight at the same time on one credential cache
\* share a single upstream exchange.
C1_SingleFlight ==
    \A t1, t2 \in Callers :
        (tok[t1].pc = "fetching" /\ tok[t2].pc = "fetching"
         /\ tok[t1].inst = tok[t2].inst) => tok[t1].exch = tok[t2].exch

\* C4: a token that getToken returns is not yet past its buffered expiry
\* at the instant of return.
C4_NoExpiredTokenReturned ==
    \A t \in Callers :
        tok[t].pc = "returned" => now < tok[t].retExpiresAt

\* C8 (as stated): a getToken call issues an exchange exactly when no valid
\* credential is cached, and a valid cached credential is returned as is.
C8_ExchangeIffInvalid ==
    [][\A t \in Callers : Starts(t) =>
          /\ (exchanges' = exchanges + 1) <=> ~StartValid(t)
          /\ StartValid(t) => /\ tok'[t].pc = "returned"
                              /\ tok'[t].ret = StartCache(t).accessToken]_vars

\* C8 (amended): a getToken call takes the refresh path exactly when no
\* valid credential is cached; on that path it issues an exchange exactly
\* when all four identity parameters are set; a valid cached credential is
\* returned as is with no exchange.
C8_RefreshIffInvalid ==
    [][\A t \in Callers : Starts(t) =>
          /\ (tok'[t].path = "fetch") <=> ~StartValid(t)
          /\ (exchanges' = exchanges + 1) <=> (~StartValid(t) /\ Params \subseteq env)
          /\ exchanges' \in {exchanges, exchanges + 1}
          /\ StartValid(t) => /\ tok'[t].pc = "returned"
                              /\ tok'[t].path = "cached"
                              /\ tok'[t].ret = StartCache(t).accessToken]_vars

\* a call served from the cache next to a call that is refreshing
C8_Witness ==
    \E t1, t2 \in Callers : tok[t1].path = "cached" /\ tok[t2].pc = "fetching"

\* C9: a stored credential expires (L - 60) s after the store time; with
\* L = 3600 a call 3539 s after the store is served from the cache and a
\* call 3541 s after it issues a fresh exchange.
C9_BufferedExpiry ==
    [][/\ \A i \in Instances : tokenCache'[i].present =>
              tokenCache'[i].expiresAt =
                  tokenCache'[i].storedAt + (tokenCache'[i].lifetime - 60) * 1000
       /\ \A t \in Callers :
              (Starts(t) /\ StartCache(t).present /\ StartCache(t).lifetime = 3600) =>
                  /\ StartCache(t).expiresAt = StartCache(t).storedAt + 3540000
                  /\ now = StartCache(t).storedAt + 3539000 =>
                        /\ tok'[t].path = "cached"
                        /\ tok'[t].ret = StartCache(t).accessToken
                        /\ exchanges' = exchanges
                  /\ now = StartCache(t).storedAt + 3541000 =>
                        /\ tok'[t].pc = "fetching"
                        /\ exchanges' = exchanges + 1]_vars

\* a 3600 s credential whose latest use from the cache was 3539 s after the
\* store, and a call that is refreshing it 3541 s after the store
C9_Witness ==
    \E i \in Instances, t \in Callers :
        /\ tokenCache[i].present /\ tokenCache[i].lifetime = 3600
        /\ lastHit = [token |-> tokenCache[i].accessToken, age |-> 3539000]
        /\ tok[t].inst = i /\ tok[t].pc = "fetching"
        /\ now = tokenCache[i].storedAt + 3541000

\* C10: a call that needs a refresh while an identity parameter is absent
\* throws the configuration error, issues no exchange and leaves the
\* cached credential as it was.
C10_ConfigErrorBeforeNetwork ==
    [][\A t \in Callers :
          (Starts(t) /\ ~StartValid(t) /\ ~(Params \subseteq env)) =>
              /\ tok'[t].pc = "threw" /\ tok'[t].err = "config"
              /\ tok'[t].exch = 0
              /\ exchanges' = exchanges
              /\ tokenCache' = tokenCache]_vars

\* a call that threw the configuration error with exactly one parameter unset
C10_Witness ==
    \E t \in Callers : /\ tok[t].err = "config"
                        /\ Cardinality(Params \ env) = 1

\* C11: a token exchange answered non-2xx makes the getToken call throw an
\* error that carries the answer's status and body; the call has issued
\* its one exchange and issues no other, and the step leaves the cached
\* credential, present or not, as it was.
C11_UpstreamAuthError ==
    [][\A t \in Callers :
          (tok[t].pc = "fetching" /\ tok'[t].respStatus # 0) =>
              /\ tok'[t].pc = "threw"
              /\ tok'[t].err = "upstream"
              /\ tok'[t].errStatus = tok'[t].respStatus
              /\ tok'[t].errBody = tok'[t].respBody
              /\ tok'[t].exch = tok[t].exch /\ tok[t].exch # 0
              /\ exchanges' = exchanges
              /\ tokenCache' = tokenCache]_vars

\* a call that threw on a 401 answer while an earlier credential, expired
\* by now, is still in the cache
C11_Witness ==
    \E t \in Callers :
        /\ tok[t].pc = "threw" /\ tok[t].errStatus = 401
        /\ tok[t].errBody = "invalid_client"
        /\ tokenCache[tok[t].inst].present
        /\ tokenCache[tok[t].inst].accessToken # tok[t].exch

(* ---------------------------------------------------------------------- *)
(* Claims about the entity resolver                                        *)
(* ---------------------------------------------------------------------- *)

\* C2: at most one catalog enumeration is issued, also when several
\* findBestMatchEntity calls are in flight before an index exists: no two
\* calls wait for an enumeration of their own.
C2_SingleFlightBuild ==
    /\ enumerations <= 1
    /\ \A r1, r2 \in Resolvers :
          (res[r1].pc = "awaitCatalog" /\ res[r2].pc = "awaitCatalog") => r1 = r2

\* C5: a first-time enumeration that fails for any reason, token
\* acquisition and configuration included, makes the call return
\* not-found with the empty index cached; the call never throws.
C5_FailedEnumerationDegrades ==
    \A r \in Resolvers :
        /\ res[r].pc # "threw"
        /\ (res[r].pc = "done" /\ res[r].failed # "none") =>
              /\ res[r].result = "null"
              /\ entityCache = [built |-> TRUE, entries |-> <<>>]

(* ---------------------------------------------------------------------- *)
(* Claims about the session registry                                       *)
(* ---------------------------------------------------------------------- *)

\* request r carries a session identifier (a header with a non-empty value)
CarriesId(r) == req[r].header.kind \in {"uuid", "proto"}

\* request r is an initialize request: no identifier, initialize body
InitializeReq(r) == req[r].pc # "new" /\ ~CarriesId(r) /\ req[r].isInit

\* the session identifier the transport of request r generated (0: none)
SessionOf(r) == IF req[r].transport > 0 THEN tr[req[r].transport].sessionId ELSE 0

\* C3: a request whose session identifier is not a key of the registry when
\* it is looked up is answered 400 and reaches no handleRequest, whatever
\* its body.
C3_UnknownSessionRejected ==
    \A r \in Reqs :
        (req[r].pc # "new" /\ CarriesId(r) /\ ~req[r].known) =>
            req[r].status = 400 /\ ~req[r].handled

\* C6: initialize requests are never turned away by the endpoint, and any
\* two of them that the transport layer served, in whatever interleaving,
\* got different session identifiers, each registered to the transport its
\* own request constructed.
C6_ConcurrentInitialize ==
    /\ \A r \in Reqs :
          InitializeReq(r) =>
              /\ req[r].outcome \notin {"rejected", "typeError"}
              /\ req[r].outcome = "sdkOk" => req[r].status = 200
    /\ \A r1, r2 \in Reqs :
          (r1 # r2 /\ InitializeReq(r1) /\ InitializeReq(r2)
           /\ req[r1].outcome = "sdkOk" /\ req[r2].outcome = "sdkOk") =>
              /\ SessionOf(r1) # 0 /\ SessionOf(r2) # 0
              /\ SessionOf(r1) # SessionOf(r2)
              /\ req[r1].transport # req[r2].transport
              /\ {SessionOf(r1), SessionOf(r2)} \subseteq DOMAIN transports
              /\ transports[SessionOf(r1)] = req[r1].transport
              /\ transports[SessionOf(r2)] = req[r2].transport

\* two served initialize requests that overlapped: the one that arrived
\* later was registered first
C6_Witness ==
    /\ Len(insertions) = 2
    /\ insertions[1].by > insertions[2].by
    /\ \A i \in 1..2 : InitializeReq(insertions[i].by)
                         /\ req[insertions[i].by].outcome = "sdkOk"

\* C7: every key of the registry was written exactly once, by a request
\* that carried no session identifier and had an initialize body, and is
\* still bound to the transport it was written with.
C7_InsertedOnceByInitialize ==
    /\ \A i, j \in 1..Len(insertions) :
          insertions[i].key = insertions[j].key => i = j
    /\ DOMAIN transports = {insertions[i].key : i \in 1..Len(insertions)}
    /\ \A i \in 1..Len(insertions) :
          /\ transports[insertions[i].key] = insertions[i].transport
          /\ ~CarriesId(insertions[i].by)
          /\ req[insertions[i].by].isInit

\* two registered sessions next to a finished request of another kind
C7_Witness ==
    /\ Len(insertions) = 2
    /\ \E r \in Reqs : req[r].pc = "done" /\ ~InitializeReq(r)

\* request r is one the endpoint must reject: an identifier that is not a
\* key of the registry, or no identifier and no initialize body
MustReject(r) ==
    /\ req[r].pc # "new"
    /\ \/ CarriesId(r) /\ ~req[r].known
       \/ ~CarriesId(r) /\ ~req[r].isInit

\* C14: a rejected request is answered with the client error and nothing
\* else: it constructs no transport, reaches no handler and writes nothing
\* to the registry.
C14_RejectedLeavesNoTrace ==
    \A r \in Reqs :
        MustReject(r) =>
            /\ req[r].pc = "done"
            /\ req[r].status = 400 /\ req[r].responses = 1
            /\ ~req[r].threw /\ ~req[r].logged
            /\ req[r].transport = 0 /\ ~req[r].handled
            /\ \A k \in 1..Len(tr) : tr[k].owner # r
            /\ \A i \in 1..Len(insertions) : insertions[i].by # r

\* C15: an exception raised while a request is routed or handled ends in
\* the catch block: it is logged, the 500 answer is sent exactly when no
\* response had been started, and no request gets two responses.
C15_CaughtAtBoundary ==
    \A r \in Reqs :
        /\ req[r].responses <= 1
        /\ req[r].status = 500 <=> (req[r].threw /\ ~req[r].sentBefore)
        /\ req[r].threw =>
              /\ req[r].pc = "done"
              /\ req[r].logged
              /\ req[r].responses = 1
              /\ req[r].sentBefore => req[r].status = 200

\* one request failed after its response was started, another before
C15_Witness ==
    \E r1, r2 \in Reqs :
        /\ req[r1].threw /\ req[r1].sentBefore
        /\ req[r2].threw /\ ~req[r2].sentBefore /\ req[r2].outcome = "connectThrew"

\* C16: a request whose identifier is a key of the registry is handled by
\* the transport registered under that key, which another request
\* constructed, and none of its steps changes the registry.
C16_ReuseRoutesToRegistered ==
    [][\A r \in Reqs :
          /\ (req'[r].pc # "new" /\ req'[r].known) =>
                /\ req'[r].handled
                /\ req'[r].header.n \in DOMAIN transports'
                /\ req'[r].transport = transports'[req'[r].header.n]
                /\ tr'[req'[r].transport].sessionId = req'[r].header.n
                /\ tr'[req'[r].transport].owner # r
          /\ (req'[r].known /\ req'[r] # req[r]) =>
                /\ transports' = transports
                /\ Len(tr') = Len(tr)
                /\ insertions' = insertions]_vars

\* with two sessions registered, a request for the first one was served
C16_Witness ==
    /\ Len(insertions) = 2
    /\ \E r \in Reqs : /\ req[r].known /\ req[r].outcome = "sdkOk"
                       /\ req[r].header.n = insertions[1].key

\* the hits of a query in an index, and the top-ranked one: no hit scores
\* better, and no hit of the same score was indexed before it
Candidates(docs, q) == {i \in 1..Len(docs) : Matches(q, docs[i])}
TopRanked(docs, q) ==
    CHOOSE i \in Candidates(docs, q) :
        \A j \in Candidates(docs, q) :
            \/ Score(q, docs[i]) < Score(q, docs[j])
            \/ Score(q, docs[i]) = Score(q, docs[j]) /\ i <= j

\* C12: on a built, non-empty index a call returns the locator of the
\* top-ranked candidate if that candidate scores at most 0.6 and not-found
\* otherwise; so an indexed name returns its own locator and a query that
\* scores above 0.6 on every entry returns not-found.
C12_ThresholdInclusive ==
    [][\A r \in Resolvers :
          (res[r].pc # "done" /\ res'[r].pc = "done"
           /\ Len(entityCache'.entries) > 0) =>
              LET docs == entityCache'.entries
                  q    == res'[r].query
                  out  == res'[r].result
              IN  /\ Candidates(docs, q) = {} => out = "null"
                  /\ Candidates(docs, q) # {} =>
                        LET top == docs[TopRanked(docs, q)]
                        IN  /\ Score(q, top) <= 600 => out = top.url
                            /\ Score(q, top) > 600 => out = "null"
                  /\ \A i \in 1..Len(docs) : q = docs[i].name => out = docs[i].url
                  /\ (\A i \in 1..Len(docs) : Score(q, docs[i]) > 600) => out = "null"]_vars

\* a query whose best hit scores exactly 0.6 and is indexed second got
\* that hit's locator
C12_Witness ==
    /\ entityCache.entries = <<Products, Customers>>
    /\ \E r \in Resolvers :
          /\ res[r].pc = "done" /\ res[r].query = "cust"
          /\ res[r].result = Customers.url

\* C13: once the index is built, no step replaces or changes it or issues
\* another enumeration.
C13_IndexImmutable ==
    [][entityCache.built =>
          /\ entityCache' = entityCache
          /\ fuse' = fuse
          /\ enumerations' = enumerations]_vars

(* ---------------------------------------------------------------------- *)
(* Claims about tool calls                                                 *)
(* ---------------------------------------------------------------------- *)

\* the outcome of callDynamicsApi the business API's answer alone decides
AnswerOutcome(a) ==
    IF a = "204" THEN <<"returned", "noContent", "none">>
    ELSE IF a = "200" THEN <<"returned", "text", "none">>
    ELSE IF a = "404" THEN <<"threw", "none", "apiFailed">>
    ELSE <<"threw", "none", "network">>

\* C17: a notification that fails never fails the tool call.  Whatever the
\* channel did, the handler's notification is followed by callDynamicsApi,
\* the notification of callDynamicsApi by the token acquisition a
\* delivered notification is followed by, and the call ends as the
\* token exchange and the business API's answer decide.
C17_NotificationFailureSwallowed ==
    [][/\ api'.pc = "threw" => api'.err \in {"resolver", "token", "apiFailed", "network"}
       /\ (api.pc = "notifying" /\ api' # api) =>
             IF api.stage = "tool"
             THEN api'.pc = "notifying" /\ api'.stage = "api" /\ tok' = tok
             ELSE /\ api'.pc = "awaitToken"
                  /\ tok'[ApiCaller] = GetTokenCall("api", exchanges + 1)
       /\ (api.pc = "awaitToken" /\ api' # api) =>
             IF tok[ApiCaller].pc = "returned"
             THEN api'.pc = "awaitApi" /\ api'.bearer = tok[ApiCaller].ret
             ELSE api'.pc = "threw" /\ api'.err = "token"
       /\ (api.pc = "awaitApi" /\ api' # api) =>
             <<api'.pc, api'.result, api'.err>> = AnswerOutcome(api'.answer)]_vars

\* both notifications of an odata-Query call failed and the call returned
\* the body the business API answered with
C17_Witness ==
    /\ api.tool = "odata-Query"
    /\ api.failures = 2
    /\ api.pc = "returned" /\ api.result = "text"

\* C18: the process has one credential cache: when any component has a
\* valid credential cached, a getToken of any component is served from the
\* cache and issues no exchange.
C18_OneCredentialCache ==
    [][\A t \in Tasks :
          (Starts(t) /\ \E i \in Instances : isTokenValid(tokenCache[i], now)) =>
              /\ tok'[t].path = "cached"
              /\ exchanges' = exchanges]_vars


====
